---- MODULE Spec2Model ----
(***************************************************************************)
(* Integration Test Scenario Extractor (src/main.py).                      *)
(*                                                                         *)
(* A Streamlit page: a document is uploaded and decoded (read_text), the   *)
(* "Generate Integration Scenarios" button checks the API credential,      *)
(* issues one chat-completions request with a forced tool call, normalises *)
(* the returned scenario elements into table rows                          *)
(* (extract_scenarios_with_function_call) and renders them.                *)
(*                                                                         *)
(* Representation.  Bytes are numbers 0..255 and decoded text is a         *)
(* sequence of code points.  A module name is a sequence of code points    *)
(* too, so that str.strip and ", ".join are computed, not assumed.  The    *)
(* free-text fields are opaque strings, one of which stands for a string   *)
(* holding a lone surrogate.  A JSON value of the model's reply is a       *)
(* record [t, ...] whose t is its JSON type, "absent" when the key is      *)
(* missing from the object.                                                *)
(***************************************************************************)
EXTENDS Integers, Sequences, FiniteSets

VARIABLES
    apiKey,      \* OPENAI_API_KEY in the environment: "unset", "empty" or "set"
    uploaded,    \* a file is held by the uploader
    fileBytes,   \* its bytes
    readRaised,  \* read_text raised to its caller
    text,        \* read_text's result
    pc,          \* position of the button handler
    reqs,        \* requests issued to the service by the current button run
    reply,       \* what the service answered to the current run's request
    scenarios,   \* parsed.get("scenarios", [])
    idx,         \* position of the normalisation loop in scenarios
    norm,        \* rows normalised so far
    outcome,     \* status element on the page
    message,     \* its text
    successShown,\* st.success is on the page
    table,       \* rows of the rendered data frame
    csvOffered   \* the CSV download button is on the page

vars == <<apiKey, uploaded, fileBytes, readRaised, text, pc, reqs, reply,
          scenarios, idx, norm, outcome, message, successShown, table, csvOffered>>

-----------------------------------------------------------------------------
(* Bounds of the checked instance.                                         *)

MaxBytes == 3
MaxNameLen == 2
MaxModules == 2
MaxScenarios == 4

RECURSIVE SeqsUpTo(_, _)
SeqsUpTo(S, n) ==
    IF n = 0 THEN {<<>>}
    ELSE LET shorter == SeqsUpTo(S, n - 1)
         IN  shorter \cup {Append(q, x) : q \in {p \in shorter : Len(p) = n - 1}, x \in S}

Range(q) == {q[i] : i \in 1..Len(q)}

-----------------------------------------------------------------------------
(* read_text: bytes.decode("utf-8", errors=...)                            *)

ReplacementChar == 65533

IsCont(x) == x >= 128 /\ x <= 191

\* Length of the sequence a lead byte announces; 0 for a byte that cannot lead.
Need(b0) ==
    IF b0 < 128 THEN 1
    ELSE IF b0 >= 194 /\ b0 <= 223 THEN 2
    ELSE IF b0 >= 224 /\ b0 <= 239 THEN 3
    ELSE IF b0 >= 240 /\ b0 <= 244 THEN 4
    ELSE 0

\* The second byte's range excludes overlong forms, surrogates and > U+10FFFF.
SecondOk(b0, b1) ==
    CASE b0 = 224 -> b1 >= 160 /\ b1 <= 191
      [] b0 = 237 -> b1 >= 128 /\ b1 <= 159
      [] b0 = 240 -> b1 >= 144 /\ b1 <= 191
      [] b0 = 244 -> b1 >= 128 /\ b1 <= 143
      [] OTHER    -> IsCont(b1)

\* Number of bytes from position i that form a well-formed start of a sequence.
GoodPrefix(b, i) ==
    LET n == Need(b[i])
        ok2 == n >= 2 /\ i + 1 <= Len(b) /\ SecondOk(b[i], b[i + 1])
        ok3 == ok2 /\ n >= 3 /\ i + 2 <= Len(b) /\ IsCont(b[i + 2])
        ok4 == ok3 /\ n >= 4 /\ i + 3 <= Len(b) /\ IsCont(b[i + 3])
    IN  IF n = 0 THEN 0
        ELSE IF ok4 THEN 4
        ELSE IF ok3 THEN 3
        ELSE IF ok2 THEN 2
        ELSE 1

CodePoint(b, i, n) ==
    CASE n = 1 -> b[i]
      [] n = 2 -> (b[i] - 192) * 64 + (b[i + 1] - 128)
      [] n = 3 -> (b[i] - 224) * 4096 + (b[i + 1] - 128) * 64 + (b[i + 2] - 128)
      [] OTHER -> (b[i] - 240) * 262144 + (b[i + 1] - 128) * 4096
                  + (b[i + 2] - 128) * 64 + (b[i + 3] - 128)

\* The decoder from position i.  An ill-formed subsequence raises under
\* errors="strict" and becomes one U+FFFD per maximal subpart under "replace".
RECURSIVE DecodeFrom(_, _, _)
DecodeFrom(b, i, errors) ==
    IF i > Len(b) THEN [raised |-> FALSE, s |-> <<>>]
    ELSE LET n == Need(b[i])
             g == GoodPrefix(b, i)
         IN  IF n > 0 /\ g = n
             THEN LET rest == DecodeFrom(b, i + n, errors)
                  IN  [raised |-> rest.raised,
                       s |-> IF rest.raised THEN <<>>
                             ELSE <<CodePoint(b, i, n)>> \o rest.s]
             ELSE IF errors = "strict" THEN [raised |-> TRUE, s |-> <<>>]
             ELSE LET rest == DecodeFrom(b, i + (IF g = 0 THEN 1 ELSE g), errors)
                  IN  [raised |-> rest.raised,
                       s |-> IF rest.raised THEN <<>>
                             ELSE <<ReplacementChar>> \o rest.s]

decode(b, errors) == DecodeFrom(b, 1, errors)

\* try: file.read().decode("utf-8", errors="replace")
\* except Exception: file.read().decode(errors="replace"), the stream then at its end.
read_text_strict(b) == decode(b, "strict")
read_text(b) ==
    LET first == decode(b, "replace")
    IN  IF first.raised THEN decode(<<>>, "replace") ELSE first

-----------------------------------------------------------------------------
(* Values of the model's reply.                                            *)

\* The literal every defaulted field receives.
NotSpecified == "Not specified in document"

\* The enum the tool schema declares for flow_type.
FlowEnum == {"Main Flow", "Alternate", "Exception", "Variant", NotSpecified}

\* A free-text field of a scenario element: missing, null or a string.
AbsentText == [t |-> "absent", s |-> ""]
NullText == [t |-> "null", s |-> ""]
Str(x) == [t |-> "str", s |-> x]

\* An entry of a module array: a string (its code points) or a number.
StrEntry(n) == [t |-> "str", s |-> n]
NumEntry == [t |-> "num", s |-> <<>>]

\* The module field: missing, null, an array of entries, or a bare string,
\* which Python iterates character by character.
AbsentModules == [t |-> "absent", l |-> <<>>]
NullModules == [t |-> "null", l |-> <<>>]
List(l) == [t |-> "list", l |-> l]
RECURSIVE chars_of(_)
chars_of(n) == IF n = <<>> THEN <<>> ELSE <<StrEntry(<<Head(n)>>)>> \o chars_of(Tail(n))
BareString(n) == [t |-> "str", l |-> chars_of(n)]

\* s.get(key) or default, for a text field: None and "" are falsy.
Truthy(v) == v.t = "str" /\ v.s # ""
get_no_default(v, d) == v.s
get_or_default(v, d) == IF Truthy(v) THEN v.s ELSE d

\* s.get("related_modules_functions_systems") or []
get_modules(v) == IF v.t \in {"list", "str"} /\ v.l # <<>> THEN v ELSE List(<<>>)

\* isinstance(modules, list) and len(modules) < 2
skip_at_most_two(modules) == modules.t = "list" /\ Len(modules.l) <= 2
skip(modules) == modules.t = "list" /\ Len(modules.l) < 2

\* str.strip on a sequence of code points: the characters str.isspace holds
\* of, U+0009..000D, U+001C..0020, U+0085, U+00A0, U+1680, U+2000..200A,
\* U+2028, U+2029, U+202F, U+205F, U+3000.
IsSpace(c) ==
    \/ c >= 9 /\ c <= 13
    \/ c >= 28 /\ c <= 32
    \/ c \in {133, 160, 5760}
    \/ c >= 8192 /\ c <= 8202
    \/ c \in {8232, 8233, 8239, 8287, 12288}
RECURSIVE lstrip(_)
lstrip(n) == IF n # <<>> /\ IsSpace(Head(n)) THEN lstrip(Tail(n)) ELSE n
RECURSIVE rstrip(_)
rstrip(n) == IF n # <<>> /\ IsSpace(n[Len(n)]) THEN rstrip(SubSeq(n, 1, Len(n) - 1)) ELSE n
strip(n) == rstrip(lstrip(n))

\* if str(m).strip(): str() of a number is never blank.
kept(e) == e.t # "str" \/ strip(e.s) # <<>>

\* m.strip() raises AttributeError on an entry that is not a string.
join_raises(l) == \E i \in 1..Len(l) : l[i].t # "str"

\* sep.join(parts)
RECURSIVE join(_, _)
join(sep, parts) ==
    IF parts = <<>> THEN <<>>
    ELSE IF Len(parts) = 1 THEN parts[1]
    ELSE parts[1] \o sep \o join(sep, Tail(parts))

RECURSIVE stripped_kept(_)
stripped_kept(l) ==
    IF l = <<>> THEN <<>>
    ELSE IF kept(Head(l)) THEN <<strip(Head(l).s)>> \o stripped_kept(Tail(l))
    ELSE stripped_kept(Tail(l))

\* ", ".join([m.strip() for m in modules if str(m).strip()])
joined_modules(modules) == join(<<44, 32>>, stripped_kept(modules.l))

\* The row appended for element s.  Fields, in column order:
\* loc      "Requirement Location (as per document)"
\* summary  "Integration Flow Summary"
\* modules  "Related Modules/Functions/Systems"
\* scenario "Test Scenario (Integration)"
\* flow     "Main/Alternate/Exception Flow"
make_row(s) ==
    [loc      |-> get_or_default(s.loc, NotSpecified),
     summary  |-> get_or_default(s.summary, NotSpecified),
     modules  |-> joined_modules(get_modules(s.modules)),
     scenario |-> get_or_default(s.scenario, NotSpecified),
     flow     |-> get_or_default(s.flow, NotSpecified)]

\* One iteration of "for s in scenarios": "skip", "raise" or "append".
step_kind(s) ==
    LET modules == get_modules(s.modules)
    IN  IF skip(modules) THEN "skip"
        ELSE IF join_raises(modules.l) THEN "raise"
        ELSE "append"

\* df.to_csv(index=False).encode("utf-8"): a lone surrogate, which json.loads
\* makes of an escape such as \ud800, cannot be encoded.
LoneSurrogateText == "\\ud800"
is_surrogate(c) == c >= 55296 /\ c <= 57343
text_encodes(x) == x # LoneSurrogateText
name_encodes(j) == \A i \in 1..Len(j) : ~is_surrogate(j[i])
csv_encodes(rows) ==
    \A k \in 1..Len(rows) :
        /\ text_encodes(rows[k].loc)
        /\ text_encodes(rows[k].summary)
        /\ name_encodes(rows[k].modules)
        /\ text_encodes(rows[k].scenario)
        /\ text_encodes(rows[k].flow)

\* norm.append(row)
prepend_row(rows, row) == <<row>> \o rows
append_row(rows, row) == Append(rows, row)

-----------------------------------------------------------------------------
(* Inputs of the checked instance.                                         *)

\* Bytes of uploaded documents: ASCII, continuation bytes, lead bytes of
\* two-, three- and four-byte sequences, and a byte no sequence contains.
DocBytes == {65, 130, 169, 195, 226, 240, 255}
AllDocs == SeqsUpTo(DocBytes, MaxBytes)
SampleDocs == {<<65>>, <<195, 169>>, <<255, 65>>}

\* Module names: every string over "a" (97) and " " (32) up to MaxNameLen,
\* and "b", a vertical tab, "a" with a no-break space, a lone surrogate.
Names == SeqsUpTo({97, 32}, MaxNameLen) \cup {<<98>>, <<11>>, <<97, 160>>, <<55296>>}
Entries == {StrEntry(n) : n \in Names} \cup {NumEntry}
ModuleVals ==
    {AbsentModules, NullModules}
        \cup {List(l) : l \in SeqsUpTo(Entries, MaxModules)}
        \cup {BareString(n) : n \in Names}

TwoModules == List(<<StrEntry(<<97>>), StrEntry(<<32, 98>>)>>)
OneModule == List(<<StrEntry(<<97>>)>>)

Element(loc, summary, modules, scenario, flow) ==
    [loc |-> loc, summary |-> summary, modules |-> modules,
     scenario |-> scenario, flow |-> flow]

TextVals(x) == {AbsentText, NullText, Str(""), Str(x), Str(LoneSurrogateText)}
FlowVals ==
    {AbsentText, NullText, Str(""), Str("Critical"), Str(LoneSurrogateText)}
        \cup {Str(f) : f \in FlowEnum}

\* Elements varying the module field, and elements varying every other field.
ModuleElements ==
    {Element(Str("S1"), Str("sum"), m, Str("scn"), Str("Main Flow")) : m \in ModuleVals}
FieldElements ==
    {Element(l, s, m, c, f) :
        l \in TextVals("S1"), s \in TextVals("sum"), m \in {TwoModules, OneModule},
        c \in TextVals("scn"), f \in FlowVals}

\* Elements of responses with several elements.
CoreElements ==
    {Element(Str("S1"), Str("sum"), TwoModules, Str("scn"), Str("Main Flow")),
     Element(Str("S2"), AbsentText, TwoModules, Str(""), Str("Critical")),
     Element(Str("S3"), Str("sum"), OneModule, Str("scn"), Str("Alternate")),
     Element(Str("S4"), Str("sum"), List(<<StrEntry(<<97>>), StrEntry(<<32>>)>>),
             Str("scn"), AbsentText),
     Element(Str("S5"), Str("sum"), List(<<StrEntry(<<97>>), NumEntry>>),
             Str("scn"), Str("Exception"))}

ScenarioLists ==
    {<<e>> : e \in ModuleElements \cup FieldElements}
        \cup SeqsUpTo(CoreElements, MaxScenarios)

\* What the service can answer to chat.completions.create.
\*   "raise"            the call raised (network, authentication, rate limit)
\*   "tool_calls_none"  message.tool_calls is None
\*   "tool_calls_empty" message.tool_calls is []
\*   "bad_json"         the arguments are not JSON
\*   "not_object"       the arguments are JSON but no object
\*   "no_scenarios"     an object without the key "scenarios"
\*   "ok"               an object whose "scenarios" is the array given
Reply(kind, l) == [kind |-> kind, scenarios |-> l]
NoReply == Reply("none", <<>>)
Replies ==
    {Reply(k, <<>>) : k \in {"raise", "tool_calls_none", "tool_calls_empty",
                             "bad_json", "not_object", "no_scenarios"}}
        \cup {Reply("ok", l) : l \in ScenarioLists}

-----------------------------------------------------------------------------
(* The page.                                                               *)

InfoMsg == "Please upload a .txt or .md file to begin."
ConfigErrorMsg == "OPENAI_API_KEY is not set. Please set it in your environment and retry."
NoFunctionCallMsg ==
    "Model did not return a function call. Try a smaller document or adjust content."
EmptyResultMsg == "No integration flows found (2+ modules). Check the document content."
SuccessMsg == "Extraction complete."

\* A status element's text: st.error(f"Something went wrong: {e}") shows the
\* exception's own text after a fixed prefix.
Plain(m) == [prefix |-> "", detail |-> m]
SomethingWentWrong(e) == [prefix |-> "Something went wrong: ", detail |-> e]

\* not os.getenv("OPENAI_API_KEY"): unset gives None, and "" is falsy too.
credential_always(k) == TRUE
credential_present(k) == k = "set"

\* if not tool_calls: None and [] are both falsy.
tool_calls_is_none(r) == r.kind = "tool_calls_none"
no_tool_calls(r) == r.kind \in {"tool_calls_none", "tool_calls_empty"}

\* The except clause ends the run: nothing follows st.error.
retry_after_failure == "requesting"
after_failure == "idle"

\* if not rows
no_rows_never(rows) == FALSE
no_rows(rows) == rows = <<>>

Init ==
    /\ apiKey \in {"unset", "empty", "set"}
    /\ uploaded = FALSE
    /\ fileBytes = <<>>
    /\ readRaised = FALSE
    /\ text = <<>>
    /\ pc = "idle"
    /\ reqs = 0
    /\ reply = NoReply
    /\ scenarios = <<>>
    /\ idx = 1
    /\ norm = <<>>
    /\ outcome = "info"
    /\ message = Plain(InfoMsg)
    /\ successShown = FALSE
    /\ table = <<>>
    /\ csvOffered = FALSE

\* A rerun of the script starts from an empty page and fresh locals.
FreshRun ==
    /\ reqs' = 0
    /\ reply' = NoReply
    /\ scenarios' = <<>>
    /\ idx' = 1
    /\ norm' = <<>>
    /\ successShown' = FALSE
    /\ table' = <<>>
    /\ csvOffered' = FALSE

\* A file is chosen: the script reruns with the button not pressed and
\* reads the file ("if uploaded: text = read_text(uploaded)").
Upload(b) ==
    /\ pc = "idle"
    /\ uploaded' = TRUE
    /\ fileBytes' = b
    /\ readRaised' = read_text(b).raised
    /\ text' = read_text(b).s
    /\ outcome' = IF read_text(b).raised THEN "uncaught" ELSE "none"
    /\ message' = Plain("")
    /\ FreshRun
    /\ UNCHANGED <<apiKey, pc>>

\* The file is removed: the script reruns into its else branch, st.info.
RemoveFile ==
    /\ pc = "idle"
    /\ uploaded
    /\ uploaded' = FALSE
    /\ fileBytes' = <<>>
    /\ readRaised' = FALSE
    /\ text' = <<>>
    /\ outcome' = "info"
    /\ message' = Plain(InfoMsg)
    /\ FreshRun
    /\ UNCHANGED <<apiKey, pc>>

\* The button is pressed: the script reruns, reads the file again and checks
\* the credential before anything else.
Click ==
    /\ pc = "idle"
    /\ uploaded
    /\ ~read_text(fileBytes).raised
    /\ readRaised' = FALSE
    /\ text' = read_text(fileBytes).s
    /\ FreshRun
    /\ IF credential_present(apiKey)
       THEN /\ pc' = "requesting"
            /\ outcome' = "spinner"
            /\ message' = Plain("")
       ELSE /\ pc' = "idle"
            /\ outcome' = "error"
            /\ message' = Plain(ConfigErrorMsg)
    /\ UNCHANGED <<apiKey, uploaded, fileBytes>>

\* An exception reaches "except Exception as e" of the button handler.
Fail(e) ==
    /\ pc' = after_failure
    /\ outcome' = "error"
    /\ message' = SomethingWentWrong(e)
    /\ norm' = <<>>
    /\ UNCHANGED <<successShown, table, csvOffered>>

\* client.chat.completions.create(...): one blocking request, any answer.
Request ==
    /\ pc = "requesting"
    /\ \E r \in Replies :
        /\ reqs' = reqs + 1
        /\ reply' = r
        /\ IF r.kind = "raise"
           THEN Fail("request failed")
           ELSE /\ pc' = "replied"
                /\ UNCHANGED <<outcome, message, norm, successShown, table, csvOffered>>
    /\ UNCHANGED <<apiKey, uploaded, fileBytes, readRaised, text, scenarios, idx>>

\* tool_calls check, json.loads and parsed.get("scenarios", []).
Parse ==
    /\ pc = "replied"
    /\ IF no_tool_calls(reply)
       THEN Fail(NoFunctionCallMsg) /\ UNCHANGED <<scenarios, idx>>
       ELSE IF reply.kind = "bad_json"
       THEN Fail("JSONDecodeError") /\ UNCHANGED <<scenarios, idx>>
       ELSE IF reply.kind = "not_object"
       THEN Fail("AttributeError") /\ UNCHANGED <<scenarios, idx>>
       ELSE /\ scenarios' = IF reply.kind = "ok" THEN reply.scenarios ELSE <<>>
            /\ idx' = 1
            /\ norm' = <<>>
            /\ pc' = "normalizing"
            /\ UNCHANGED <<outcome, message, successShown, table, csvOffered>>
    /\ UNCHANGED <<apiKey, uploaded, fileBytes, readRaised, text, reqs, reply>>

\* One iteration of the normalisation loop.
Loop ==
    /\ pc = "normalizing"
    /\ idx <= Len(scenarios)
    /\ LET s == scenarios[idx]
       IN  IF step_kind(s) = "raise"
           THEN Fail("AttributeError") /\ UNCHANGED idx
           ELSE /\ norm' = IF step_kind(s) = "skip" THEN norm
                           ELSE append_row(norm, make_row(s))
                /\ idx' = idx + 1
                /\ UNCHANGED <<pc, outcome, message, successShown, table, csvOffered>>
    /\ UNCHANGED <<apiKey, uploaded, fileBytes, readRaised, text, reqs, reply, scenarios>>

\* return norm
Return ==
    /\ pc = "normalizing"
    /\ idx > Len(scenarios)
    /\ pc' = "returned"
    /\ UNCHANGED <<apiKey, uploaded, fileBytes, readRaised, text, reqs, reply,
                   scenarios, idx, norm, outcome, message, successShown, table, csvOffered>>

\* The warning; or the success message and the data frame, and then the CSV
\* download unless encoding the CSV raises, which the handler's except
\* clause reports below what is already on the page.
Render ==
    /\ pc = "returned"
    /\ IF no_rows(norm)
       THEN /\ pc' = "idle"
            /\ outcome' = "warning"
            /\ message' = Plain(EmptyResultMsg)
            /\ UNCHANGED <<successShown, table, csvOffered>>
       ELSE /\ successShown' = TRUE
            /\ table' = norm
            /\ IF csv_encodes(norm)
               THEN /\ pc' = "idle"
                    /\ outcome' = "success"
                    /\ message' = Plain(SuccessMsg)
                    /\ csvOffered' = TRUE
               ELSE /\ pc' = after_failure
                    /\ outcome' = "error"
                    /\ message' = SomethingWentWrong("UnicodeEncodeError")
                    /\ csvOffered' = FALSE
    /\ UNCHANGED <<apiKey, uploaded, fileBytes, readRaised, text, reqs, reply,
                   scenarios, idx, norm>>

UploadSample == \E b \in SampleDocs : Upload(b)

Next ==
    \/ UploadSample
    \/ RemoveFile
    \/ Click
    \/ Request
    \/ Parse
    \/ Loop
    \/ Return
    \/ Render

Spec == Init /\ [][Next]_vars

\* The document loader alone, over every document of the instance: the
\* uploader holds any document and the script runs on it.
InitRead ==
    /\ apiKey \in {"unset", "empty", "set"}
    /\ uploaded = TRUE
    /\ fileBytes \in AllDocs
    /\ readRaised = FALSE
    /\ text = <<>>
    /\ pc = "idle"
    /\ reqs = 0
    /\ reply = NoReply
    /\ scenarios = <<>>
    /\ idx = 1
    /\ norm = <<>>
    /\ outcome = "info"
    /\ message = Plain(InfoMsg)
    /\ successShown = FALSE
    /\ table = <<>>
    /\ csvOffered = FALSE

Rerun == uploaded /\ Upload(fileBytes)

NextRead == Rerun

SpecRead == InitRead /\ [][NextRead]_vars

-----------------------------------------------------------------------------
(* Notions the properties are stated with.                                 *)

\* extract_scenarios_with_function_call has returned its rows.
Returned == pc = "returned" \/ outcome \in {"success", "warning"} \/ successShown

\* Number of module names a joined "Related Modules/Functions/Systems"
\* field holds: one more than its ", " separators, none when it is empty.
ModulesNamed(j) ==
    IF j = <<>> THEN 0
    ELSE 1 + Cardinality({i \in 1..(Len(j) - 1) : j[i] = 44 /\ j[i + 1] = 32})

\* The module field is an array, or is missing or null.
IsArrayOrMissing(s) == s.modules.t \in {"absent", "null", "list"}
AllArrays == \A i \in 1..Len(scenarios) : IsArrayOrMissing(scenarios[i])

\* The elements the filter lets through, in the response's order.
Survives(s) == step_kind(s) = "append"
Survivors == SelectSeq(scenarios, Survives)

\* The module field is an array of two or more entries.
HasTwoEntries(s) == s.modules.t = "list" /\ Len(s.modules.l) >= 2

\* The handler ran the extraction to its end and rendered the result.
ExtractionCompleted ==
    pc = "idle" /\ reqs = 1 /\ reply.kind \in {"ok", "no_scenarios"} /\ idx > Len(scenarios)

\* The bytes are well-formed UTF-8; the script has run on the uploaded file.
WellFormed(b) == ~decode(b, "strict").raised
HasRead == uploaded /\ outcome # "info"

\* A field as the original statement of C3 has it, and as the code has it.
CopiedOrDefaulted(v, out) ==
    IF v.t \in {"absent", "null"} THEN out = NotSpecified ELSE out = v.s
NonEmptyCopiedElseDefault(v, out) ==
    IF v.t = "str" /\ v.s # "" THEN out = v.s ELSE out = NotSpecified

RECURSIVE RowsOf(_)
RowsOf(l) == IF l = <<>> THEN <<>> ELSE <<make_row(Head(l))>> \o RowsOf(Tail(l))

-----------------------------------------------------------------------------
(* C1.  Every output row names at least two modules: an element whose      *)
(* module list has fewer than two entries that are non-empty after         *)
(* trimming is discarded.  Stated here for responses whose module fields   *)
(* are all arrays (or missing).                                            *)
C1_EveryRowNamesTwoModules ==
    (Returned /\ AllArrays) => \A k \in 1..Len(norm) : ModulesNamed(norm[k].modules) >= 2

-----------------------------------------------------------------------------
(* C2.  When every module field is an array (or missing), the number of    *)
(* output rows equals the number of response elements whose module array   *)
(* has two or more entries; elements with a shorter, empty or missing      *)
(* array give no row.                                                      *)
C2_RowCount ==
    (Returned /\ AllArrays) =>
        Len(norm) = Cardinality({i \in 1..Len(scenarios) : HasTwoEntries(scenarios[i])})

\* Three elements with two modules and one with a single module: three rows.
C2_Witness ==
    /\ Returned
    /\ AllArrays
    /\ Len(scenarios) = 4
    /\ Cardinality({i \in 1..4 : scenarios[i].modules = OneModule}) = 1
    /\ Cardinality({i \in 1..4 : HasTwoEntries(scenarios[i])}) = 3
    /\ Len(norm) = 3

-----------------------------------------------------------------------------
(* C3.  As claimed: in the row of a surviving element, a text field or     *)
(* flow classification that is missing (or null) is "Not specified in      *)
(* document" and a field that is present is copied unchanged.              *)
C3_PresentCopiedUnchanged ==
    Returned =>
        /\ Len(norm) = Len(Survivors)
        /\ \A k \in 1..Len(norm) :
            /\ CopiedOrDefaulted(Survivors[k].loc, norm[k].loc)
            /\ CopiedOrDefaulted(Survivors[k].summary, norm[k].summary)
            /\ CopiedOrDefaulted(Survivors[k].scenario, norm[k].scenario)
            /\ CopiedOrDefaulted(Survivors[k].flow, norm[k].flow)

(* C3, amended.  In the row of a surviving element, a text field or flow   *)
(* classification that is missing, null or the empty string is "Not        *)
(* specified in document", and a field holding a non-empty string is       *)
(* copied unchanged.                                                       *)
C3_NonEmptyCopiedElseDefault ==
    Returned =>
        /\ Len(norm) = Len(Survivors)
        /\ \A k \in 1..Len(norm) :
            /\ NonEmptyCopiedElseDefault(Survivors[k].loc, norm[k].loc)
            /\ NonEmptyCopiedElseDefault(Survivors[k].summary, norm[k].summary)
            /\ NonEmptyCopiedElseDefault(Survivors[k].scenario, norm[k].scenario)
            /\ NonEmptyCopiedElseDefault(Survivors[k].flow, norm[k].flow)

\* A row with a defaulted missing field, a defaulted empty field and copied fields.
C3_Witness ==
    /\ Returned
    /\ Len(norm) = 1
    /\ Len(scenarios) = 1
    /\ scenarios[1].loc = Str("S1") /\ norm[1].loc = "S1"
    /\ scenarios[1].summary = AbsentText /\ norm[1].summary = NotSpecified
    /\ scenarios[1].scenario = Str("") /\ norm[1].scenario = NotSpecified
    /\ scenarios[1].flow = NullText /\ norm[1].flow = NotSpecified

-----------------------------------------------------------------------------
(* C4.  The returned rows are exactly the rows of the surviving elements,  *)
(* in the order of the response: nothing reordered, duplicated or derived  *)
(* from a discarded element.                                               *)
C4_OrderPreserved ==
    Returned => (norm = RowsOf(Survivors) /\ (successShown => table = norm))

\* Two different rows around a discarded element.
C4_Witness ==
    /\ outcome = "success"
    /\ Len(scenarios) = 3
    /\ Survives(scenarios[1]) /\ ~Survives(scenarios[2]) /\ Survives(scenarios[3])
    /\ Len(table) = 2
    /\ table[1].loc = "S2" /\ table[2].loc = "S1"

-----------------------------------------------------------------------------
(* C5.  Without the credential no request is ever issued and the button    *)
(* gives the configuration error; a request is issued only with the        *)
(* credential present.                                                     *)
C5_NoCredentialNoRequest ==
    /\ (reqs > 0 \/ pc # "idle" \/ reply # NoReply) => apiKey = "set"
    /\ apiKey # "set" =>
        /\ outcome \in {"info", "none", "error"}
        /\ outcome = "error" => message = Plain(ConfigErrorMsg)
    /\ message = Plain(ConfigErrorMsg) => (apiKey # "set" /\ outcome = "error" /\ reqs = 0)

C5_Witness ==
    /\ apiKey = "unset"
    /\ uploaded
    /\ outcome = "error"
    /\ message = Plain(ConfigErrorMsg)
    /\ reqs = 0

-----------------------------------------------------------------------------
(* C6.  A reply without tool calls ends in the error whose text is the     *)
(* "no function call" message; no row is normalised, no table, CSV         *)
(* download or success message is produced.                                *)
C6_NoToolCallIsError ==
    reply.kind \in {"tool_calls_none", "tool_calls_empty"} =>
        /\ pc \in {"replied", "idle"}
        /\ norm = <<>> /\ table = <<>> /\ ~csvOffered /\ ~successShown
        /\ outcome \notin {"success", "warning"}
        /\ pc = "idle" => (outcome = "error" /\ message = SomethingWentWrong(NoFunctionCallMsg))

C6_Witness ==
    /\ reply.kind = "tool_calls_empty"
    /\ pc = "idle"
    /\ outcome = "error"
    /\ message.detail = NoFunctionCallMsg

-----------------------------------------------------------------------------
(* C7.  An extraction that completes with zero rows ends in the warning,   *)
(* not an error, with no table and no CSV download; the table, the success *)
(* message and the download appear only with at least one row.             *)
C7_EmptyResultIsWarning ==
    /\ (ExtractionCompleted /\ norm = <<>>) =>
            (outcome = "warning" /\ table = <<>> /\ ~csvOffered /\ ~successShown)
    /\ outcome = "warning" =>
            (norm = <<>> /\ table = <<>> /\ ~csvOffered /\ ~successShown)
    /\ (outcome = "success" \/ successShown \/ csvOffered \/ table # <<>>) =>
            (norm # <<>> /\ table = norm /\ successShown)
    /\ csvOffered => outcome = "success"

\* Every element was discarded: the warning.
C7_Witness ==
    /\ ExtractionCompleted
    /\ Len(scenarios) >= 1
    /\ norm = <<>>
    /\ outcome = "warning"

-----------------------------------------------------------------------------
(* C8.  A button run issues at most one request; a request is issued only  *)
(* by a run that has issued none; a run starts only from the idle page;    *)
(* and every error ends the run.                                           *)
C8_OneRequestNoRetry ==
    [][/\ reqs' <= 1
       /\ reqs' > reqs => (pc = "requesting" /\ reqs = 0)
       /\ (pc' = "requesting" /\ pc # "requesting") => (pc = "idle" /\ reqs' = 0)
       /\ pc' = "requesting" => pc # "requesting"
       /\ outcome' = "error" => pc' = "idle"]_vars

\* A run that failed after its one request.
C8_Witness ==
    /\ reqs = 1
    /\ pc = "idle"
    /\ outcome = "error"
    /\ reply.kind \in {"raise", "bad_json", "tool_calls_none"}

-----------------------------------------------------------------------------
(* C9.  read_text returns a string for every byte sequence and never       *)
(* raises: well-formed input decodes as under strict decoding, ill-formed  *)
(* input decodes with U+FFFD in place of the ill-formed parts.             *)
C9_ReadNeverRaises ==
    HasRead =>
        /\ ~readRaised
        /\ outcome # "uncaught"
        /\ \A i \in 1..Len(text) : text[i] \in 0..1114111
        /\ WellFormed(fileBytes) => text = decode(fileBytes, "strict").s
        /\ ~WellFormed(fileBytes) => ReplacementChar \in Range(text)

\* An ill-formed document between two well-formed characters.
C9_Witness ==
    /\ HasRead
    /\ fileBytes = <<65, 255, 65>>
    /\ text = <<65, ReplacementChar, 65>>

-----------------------------------------------------------------------------
(* C10.  In every output row the flow classification is one of the five    *)
(* values of the schema's enum, whatever flow_type the element carries.    *)
C10_FlowInEnum ==
    Returned => \A k \in 1..Len(norm) : norm[k].flow \in FlowEnum

====
